---- MODULE Spec2Model ----
(***************************************************************************)
(* Model of the generate-message edge function                             *)
(* (supabase/functions/generate-message/index.ts): text extraction from    *)
(* the uploaded file, prompt construction, the primary/fallback provider   *)
(* calls, persistence and the HTTP response.                               *)
(*                                                                         *)
(* Strings whose length or content the code inspects are modelled as       *)
(* sequences of tokens [c |-> ch, n |-> k]: k copies of the character ch,  *)
(* or, for a literal of the source, the literal c with its length k (in    *)
(* UTF-16 code units, as String.prototype.length counts).                  *)
(***************************************************************************)
EXTENDS Integers, Sequences, FiniteSets, TLC

(* ------------------------------ bounds -------------------------------- *)

\* Longest file body, in tokens, that the model enumerates.
MaxLen == 3

(* ------------------------- program constants -------------------------- *)

\* textContent.length < 50 / cleanText.length < 50
MinTextLen == 50
\* cleanText.substring(0, 10000)
DocxLimit == 10000
\* extractedText.substring(0, 50000)
ArchiveLimit == 50000

(* ------------------------------- text --------------------------------- *)

Tok(ch, k) == [c |-> ch, n |-> k]

NL == "\n"
SP == " "
\* U+FFFD, what TextDecoder puts for a byte sequence that is not UTF-8
REPLACEMENT == "uFFFD"
\* a byte that is not valid UTF-8
BADBYTE == "xFF"

RECURSIVE TextLen(_)
TextLen(t) == IF t = <<>> THEN 0 ELSE Head(t).n + TextLen(Tail(t))

\* String.prototype.substring(0, k)
RECURSIVE Substring0(_, _)
Substring0(t, k) ==
  IF t = <<>> \/ k <= 0 THEN <<>>
  ELSE IF Head(t).n <= k
       THEN <<Head(t)>> \o Substring0(Tail(t), k - Head(t).n)
       ELSE <<Tok(Head(t).c, k)>>

\* new TextDecoder().decode(arrayBuffer): UTF-8, malformed bytes replaced
RECURSIVE TextDecode(_)
TextDecode(bytes) ==
  IF bytes = <<>> THEN <<>>
  ELSE <<IF Head(bytes).c = BADBYTE THEN Tok(REPLACEMENT, Head(bytes).n)
                                    ELSE Head(bytes)>>
       \o TextDecode(Tail(bytes))

IsSpace(tok) == tok.c \in {SP, NL}

\* index of the first token at or after i whose character is in chars and
\* that is reached without crossing a character in stop; 0 when none
RECURSIVE FindFrom(_, _, _, _)
FindFrom(t, i, chars, stop) ==
  IF i > Len(t) THEN 0
  ELSE IF t[i].c \in chars THEN i
  ELSE IF t[i].c \in stop THEN 0
  ELSE FindFrom(t, i + 1, chars, stop)

\* text.match(/\((.*?)\)/g)?.map(s => s.slice(1, -1)): the inner texts of
\* the matches, scanning from token i ('.' does not match a line feed)
RECURSIVE ParenMatches(_, _)
ParenMatches(t, i) ==
  IF i > Len(t) THEN <<>>
  ELSE IF t[i].c # "(" THEN ParenMatches(t, i + 1)
  ELSE LET j == FindFrom(t, i + 1, {")"}, {NL})
       IN IF j = 0 THEN ParenMatches(t, i + 1)
          ELSE <<SubSeq(t, i + 1, j - 1)>> \o ParenMatches(t, j + 1)

\* Array.prototype.join(' ')
RECURSIVE JoinSpace(_)
JoinSpace(parts) ==
  IF parts = <<>> THEN <<>>
  ELSE IF Len(parts) = 1 THEN Head(parts)
  ELSE Head(parts) \o <<Tok(SP, 1)>> \o JoinSpace(Tail(parts))

\* text.match(/\((.*?)\)/g)?.map(s => s.slice(1, -1)).join(' ') || ''
PdfTextContent(text) == JoinSpace(ParenMatches(text, 1))

\* text.replace(/<[^>]*>/g, ' ')
RECURSIVE StripTags(_, _)
StripTags(t, i) ==
  IF i > Len(t) THEN <<>>
  ELSE IF t[i].c # "<" THEN <<t[i]>> \o StripTags(t, i + 1)
  ELSE LET j == FindFrom(t, i + 1, {">"}, {})
       IN IF j = 0 THEN <<t[i]>> \o StripTags(t, i + 1)
          ELSE <<Tok(SP, 1)>> \o StripTags(t, j + 1)

\* .replace(/\s+/g, ' ')
RECURSIVE CollapseSpace(_)
CollapseSpace(t) ==
  IF t = <<>> THEN <<>>
  ELSE IF ~IsSpace(Head(t)) THEN <<Head(t)>> \o CollapseSpace(Tail(t))
  ELSE IF Len(t) > 1 /\ IsSpace(t[2]) THEN CollapseSpace(Tail(t))
  ELSE <<Tok(SP, 1)>> \o CollapseSpace(Tail(t))

\* String.prototype.trim()
RECURSIVE TrimLeft(_)
TrimLeft(t) ==
  IF t # <<>> /\ IsSpace(Head(t)) THEN TrimLeft(Tail(t)) ELSE t

RECURSIVE TrimRight(_)
TrimRight(t) ==
  IF t # <<>> /\ IsSpace(t[Len(t)]) THEN TrimRight(SubSeq(t, 1, Len(t) - 1)) ELSE t

Trim(t) == TrimRight(TrimLeft(t))

\* text.replace(/<[^>]*>/g, ' ').replace(/\s+/g, ' ').trim()
DocxCleanText(text) == Trim(CollapseSpace(StripTags(text, 1)))

(* ------------------------- extractTextFromFile ------------------------ *)

Pending == [state |-> "pending", value |-> <<>>, error |-> ""]
Fulfilled(v) == [state |-> "fulfilled", value |-> v, error |-> ""]
Rejected(msg) == [state |-> "rejected", value |-> <<>>, error |-> msg]
NotCalled == [state |-> "none", value |-> <<>>, error |-> ""]

FileUrls == {"https://storage/resumes/r1"}
FileTypes == {"pdf", "docx"}

UrlTok(fileUrl) == Tok(fileUrl, 26)
TypeTok(fileType) == Tok(fileType, IF fileType = "pdf" THEN 3 ELSE 4)

\* `Resume file from: ${fileUrl}. File type: ${fileType}. Please analyze
\* based on typical resume structure.`
Placeholder(fileUrl, fileType) ==
  << Tok("Resume file from: ", 18), UrlTok(fileUrl),
     Tok(". File type: ", 13), TypeTok(fileType),
     Tok(". Please analyze based on typical resume structure.", 51) >>

\* `Resume file from: ${fileUrl}. File type: ${fileType}. Unable to extract
\* full text, please provide general guidance.`
Fallback(fileUrl, fileType) ==
  << Tok("Resume file from: ", 18), UrlTok(fileUrl),
     Tok(". File type: ", 13), TypeTok(fileType),
     Tok(". Unable to extract full text, please provide general guidance.", 63) >>

\* the PDF branch without the length gate
PdfBranchNoGate(bytes, fileUrl, fileType) == PdfTextContent(TextDecode(bytes))

\* the PDF branch after the body is read
PdfBranch(bytes, fileUrl, fileType) ==
  LET textContent == PdfTextContent(TextDecode(bytes))
  IN IF TextLen(textContent) < MinTextLen
     THEN Placeholder(fileUrl, fileType)
     ELSE textContent

\* the DOCX branch after the body is read
DocxBranch(bytes, fileUrl, fileType) ==
  LET cleanText == DocxCleanText(TextDecode(bytes))
  IN IF TextLen(cleanText) < MinTextLen
     THEN Placeholder(fileUrl, fileType)
     ELSE Substring0(cleanText, DocxLimit)

\* a catch that lets the error through
ExtractCatchRethrow(error, fileUrl, fileType) == Rejected(error.message)

\* catch (error) { console.error(...); return `...Unable to extract...` }
ExtractCatch(error, fileUrl, fileType) == Fulfilled(Fallback(fileUrl, fileType))

\* the body of the try block once arrayBuffer() has resolved
ExtractTry(bytes, fileUrl, fileType) ==
  Fulfilled(IF fileType = "pdf" THEN PdfBranch(bytes, fileUrl, fileType)
                                ELSE DocxBranch(bytes, fileUrl, fileType))

(* ----------------------------- file bodies ---------------------------- *)

\* the bytes file bodies are made of: the delimiters the scans look for, a line
\* feed (white space, and the character '.' does not match), a byte that is not
\* UTF-8, a run of a letter one short of the length gate, and a run longer
\* than the DOCX limit and the archive limit
Bytes ==
  { Tok("(", 1), Tok(")", 1), Tok("<", 1), Tok(">", 1), Tok(NL, 1),
    Tok(BADBYTE, 1), Tok("a", MinTextLen - 1), Tok("a", ArchiveLimit + 1) }

RECURSIVE SeqsUpTo(_, _)
SeqsUpTo(S, k) ==
  IF k = 0 THEN {<<>>}
  ELSE LET R == SeqsUpTo(S, k - 1)
       IN R \cup {Append(s, e) : s \in R, e \in S}

FileBodies == SeqsUpTo(Bytes, MaxLen)

(* ----------------------------- buildPrompt ---------------------------- *)

Languages == {"english", "tamil", "both"}
CustomerNames == {"Asha"}
NameTok(customerName) == Tok(customerName, 4)

\* the instruction that is the same whatever the language
languageInstructionEnglish(language) ==
  <<Tok("Write the entire message in English only.", 41)>>

languageInstruction(language) ==
  IF language = "tamil"
  THEN <<Tok("Write the entire message in Tamil language only.", 48)>>
  ELSE IF language = "both"
  THEN <<Tok("Write the message in both English and Tamil. First provide the English version, then the Tamil version.", 103)>>
  ELSE <<Tok("Write the entire message in English only.", 41)>>

\* the text of the interview questions block
QuestionsBlock ==
  Tok("\n:check: Interview Questions Section:\n- Include 5-8 interview questions relevant to the candidate's skills and experience\n- Questions should be practical and commonly asked in interviews for their field\n- Format as a numbered list", 224)

\* a flag that is off leaves the label of the block in the prompt
questionsSectionLabelOnly(includeQuestions) ==
  IF includeQuestions THEN <<QuestionsBlock>>
  ELSE <<Tok("\n:check: Interview Questions Section:", 37)>>

questionsSection(includeQuestions) ==
  IF includeQuestions THEN <<QuestionsBlock>> ELSE <<>>

\* the text of the ATS score block
AtsBlock ==
  Tok("\n:check: ATS Score Section:\n- Provide an estimated ATS (Applicant Tracking System) compatibility score out of 100\n- Briefly explain what could improve the score", 154)

atsSection(includeAtsScore) ==
  IF includeAtsScore THEN <<AtsBlock>> ELSE <<>>

\* the opening: who the model is, the customer and the resume text
PromptHead(customerName, extractedText) ==
  << Tok("You are a friendly shop assistant at a Xerox/Printout shop called \"Fintech BMS\". A customer named ", 98),
     NameTok(customerName),
     Tok(" has just had their resume printed. \n\nAnalyze the following resume and generate a WhatsApp-ready message that builds trust and provides value:\n\nRESUME CONTENT:\n", 160) >>
  \o extractedText

\* the blocks every prompt has
AppreciationBlock ==
  Tok("\n\n:check: Appreciation Message:\n- Thank them warmly for choosing our shop\n- Use a friendly, professional tone", 103)
FeedbackBlock ==
  Tok("\n\n:check: Short Resume Feedback:\n- Provide 2-3 positive observations about their resume\n- Mention any standout skills or experience", 125)
GuidanceBlock ==
  Tok("\n\n:check: Career Guidance/Tips:\n- Give 2-3 actionable career tips relevant to their profile\n- Keep it encouraging and practical", 121)
JobRolesBlock ==
  Tok("\n\n:check: Job Role Suggestions:\n- Suggest 3-5 job roles that match their profile\n- Be specific based on their skills and experience\n", 126)
EncouragementBlock ==
  Tok("\n\n:check: Final Encouragement:\n- End with a motivating message\n- Wish them success in their job search", 96)

\* the section blocks with the ATS block ahead of the questions block
SectionBlocksAtsFirst(includeQuestions, includeAtsScore) ==
  << Tok("\n\nGenerate a message that includes:", 35),
     AppreciationBlock, FeedbackBlock, GuidanceBlock, JobRolesBlock >>
  \o atsSection(includeAtsScore)
  \o << Tok(NL, 1) >>
  \o questionsSection(includeQuestions)
  \o << EncouragementBlock >>

\* "Generate a message that includes:" and the section blocks
SectionBlocks(includeQuestions, includeAtsScore) ==
  << Tok("\n\nGenerate a message that includes:", 35),
     AppreciationBlock, FeedbackBlock, GuidanceBlock, JobRolesBlock >>
  \o questionsSection(includeQuestions)
  \o << Tok(NL, 1) >>
  \o atsSection(includeAtsScore)
  \o << EncouragementBlock >>

\* the IMPORTANT RULES block, without the disclaimer rule
ClosingRulesNoDisclaimer(language) ==
  << Tok("\n\nIMPORTANT RULES:\n1. ", 22) >>
  \o languageInstruction(language)
  \o << Tok("\n2. Keep the message concise and WhatsApp-friendly (easy to read on mobile)\n3. Use light emojis: :check: :fire: :pray: :smile: :thumbsup: :briefcase: :memo: (don't overuse)\n4. NO fake claims like \"you got selected\" or \"interview scheduled\"", 199),
        Tok("\n6. Keep it professional but warm - like a helpful friend\n7. Format for WhatsApp: Use line breaks, avoid complex formatting\n\nGenerate the WhatsApp message now:", 159) >>

\* the IMPORTANT RULES block
ClosingRules(language) ==
  << Tok("\n\nIMPORTANT RULES:\n1. ", 22) >>
  \o languageInstruction(language)
  \o << Tok("\n2. Keep the message concise and WhatsApp-friendly (easy to read on mobile)\n3. Use light emojis: :check: :fire: :pray: :smile: :thumbsup: :briefcase: :memo: (don't overuse)\n4. NO fake claims like \"you got selected\" or \"interview scheduled\"", 199),
        Tok("\n5. MUST include this disclaimer at the end: \":memo: Note: This is general guidance based on your resume. Results may vary. Best wishes! :pray:\"", 136),
        Tok("\n6. Keep it professional but warm - like a helpful friend\n7. Format for WhatsApp: Use line breaks, avoid complex formatting\n\nGenerate the WhatsApp message now:", 159) >>

buildPrompt(customerName, extractedText, language, includeQuestions, includeAtsScore) ==
  PromptHead(customerName, extractedText)
    \o SectionBlocks(includeQuestions, includeAtsScore)
    \o ClosingRules(language)

(* ------------------------------ providers ----------------------------- *)

GEMINI_MODEL == "google/gemini-3-flash-preview"
FALLBACK_MODEL == "openai/gpt-5-mini"
SYSTEM_INSTRUCTION == "You are a helpful assistant that generates WhatsApp-ready messages for a Xerox shop. Be friendly, professional, and encouraging."

\* the value of choices?.[0]?.message?.content when the field is missing
Undefined == "<undefined>"

\* what a provider can put in choices[0].message.content
ContentOf(model) ==
  IF model = GEMINI_MODEL THEN {Undefined, "", "message written by gemini-3-flash"}
                          ELSE {Undefined, "", "message written by gpt-5-mini"}

\* non-success statuses the gateway answers with
ErrorStatuses == {402, 429, 500}

\* the outcome of one fetch to the gateway, as the handler sees it:
\*   threw    the fetch promise rejected (transport error)
\*   http     a response arrived, with its status; when the status is a
\*            success, `json` tells whether response.json() parsed and
\*            `content` is choices?.[0]?.message?.content
NoResponse == [kind |-> "none", status |-> 0, json |-> FALSE, content |-> Undefined]
Threw == [kind |-> "threw", status |-> 0, json |-> FALSE, content |-> Undefined]
HttpError(st) == [kind |-> "http", status |-> st, json |-> FALSE, content |-> Undefined]
HttpOk(c) == [kind |-> "http", status |-> 200, json |-> TRUE, content |-> c]
HttpOkBadJson == [kind |-> "http", status |-> 200, json |-> FALSE, content |-> Undefined]

ProviderOutcomes(model) ==
  {Threw, HttpOkBadJson} \cup {HttpError(st) : st \in ErrorStatuses}
    \cup {HttpOk(c) : c \in ContentOf(model)}

\* a check that takes any response for a success
OkAnyStatus(res) == res.kind = "http"

\* response.ok
Ok(res) == res.kind = "http" /\ res.status >= 200 /\ res.status <= 299

\* the request body of a chat-completions call
Completion(model, prompt) ==
  [model |-> model, system |-> SYSTEM_INSTRUCTION, user |-> prompt]

\* data.choices?.[0]?.message?.content || ""
ContentOrEmpty(res) == IF res.content = Undefined THEN "" ELSE res.content

(* ------------------------------ responses ---------------------------- *)

\* new Response(null, { headers: corsHeaders })
Preflight ==
  [status |-> 200, json |-> FALSE, error |-> Undefined, message |-> Undefined,
   model_used |-> Undefined]

\* new Response(JSON.stringify({ error }), { status, ... })
ErrorResponse(st, msg) ==
  [status |-> st, json |-> TRUE, error |-> msg, message |-> Undefined,
   model_used |-> Undefined]

\* new Response(JSON.stringify({ message, model_used }), ...)
SuccessResponse(msg, model) ==
  [status |-> 200, json |-> TRUE, error |-> Undefined, message |-> msg,
   model_used |-> model]

NotSent ==
  [status |-> 0, json |-> FALSE, error |-> Undefined, message |-> Undefined,
   model_used |-> Undefined]

\* a thrown value: every throw of the handler is an Error (new Error(...),
\* the TypeError of fetch, the SyntaxError of json())
Err(msg) == [isError |-> TRUE, message |-> msg]

\* catch (error) { return new Response(JSON.stringify({ error:
\*   error instanceof Error ? error.message : "Failed to generate message" }),
\*   { status: 500 }) }
OuterCatch(error) ==
  ErrorResponse(500, IF error.isError THEN error.message
                                      ELSE "Failed to generate message")

RATE_LIMIT_MESSAGE == "Rate limit exceeded. Please try again in a moment."
CREDITS_MESSAGE == "AI credits exhausted. Please add more credits."
TRANSPORT_ERROR == "error sending request"
JSON_ERROR == "Unexpected end of JSON input"

(* --------------------------- provider handling ------------------------ *)

\* the Gemini try block without `if (!generatedMessage) throw`
GeminiTryNoEmptyCheck(res) ==
  IF res.kind = "threw" \/ ~Ok(res) \/ ~res.json
  THEN [threw |-> TRUE, generatedMessage |-> ""]
  ELSE [threw |-> FALSE, generatedMessage |-> ContentOrEmpty(res)]

\* the try block around the Gemini call, from the settled fetch on: either
\* it throws (to the fallback catch) or it leaves generatedMessage set
GeminiTry(res) ==
  IF res.kind = "threw" THEN [threw |-> TRUE, generatedMessage |-> ""]
  ELSE IF ~Ok(res) THEN [threw |-> TRUE, generatedMessage |-> ""]
  ELSE IF ~res.json THEN [threw |-> TRUE, generatedMessage |-> ""]
  ELSE IF ContentOrEmpty(res) = ""
       THEN [threw |-> TRUE, generatedMessage |-> ContentOrEmpty(res)]
       ELSE [threw |-> FALSE, generatedMessage |-> ContentOrEmpty(res)]

\* the result of a stretch of the fallback catch block: a returned response,
\* a throw to the outer catch, or falling through with generatedMessage set
Return(res) ==
  [kind |-> "return", error |-> Err(""), response |-> res, generatedMessage |-> ""]
Throw(msg, generated) ==
  [kind |-> "throw", error |-> Err(msg), response |-> NotSent,
   generatedMessage |-> generated]
Continue(generated) ==
  [kind |-> "continue", error |-> Err(""), response |-> NotSent,
   generatedMessage |-> generated]

\* if (!fallbackResponse.ok) { ... 429 ... 402 ... throw }, first without the
\* 429 case and without the 402 case
FallbackNotOkNo429(status) ==
  IF status = 402
  THEN Return(ErrorResponse(402, "AI credits exhausted. Please add more credits."))
  ELSE Throw("Fallback API error: " \o ToString(status), "")

FallbackNotOkNo402(status) ==
  IF status = 429
  THEN Return(ErrorResponse(429, "Rate limit exceeded. Please try again in a moment."))
  ELSE Throw("Fallback API error: " \o ToString(status), "")

FallbackNotOk(status) ==
  IF status = 429
  THEN Return(ErrorResponse(429, RATE_LIMIT_MESSAGE))
  ELSE IF status = 402
  THEN Return(ErrorResponse(402, CREDITS_MESSAGE))
  ELSE Throw("Fallback API error: " \o ToString(status), "")

\* generatedMessage = fallbackData.choices?.[0]?.message?.content || "";
\* if (!generatedMessage) throw -- first without the check
FallbackContentUnchecked(res) == Continue(ContentOrEmpty(res))

FallbackContent(res) ==
  IF ContentOrEmpty(res) = ""
  THEN Throw("Empty response from fallback model", ContentOrEmpty(res))
  ELSE Continue(ContentOrEmpty(res))

\* the fallback catch block, from the settled fetch on
FallbackCatch(res) ==
  IF res.kind = "threw" THEN Throw(TRANSPORT_ERROR, "")
  ELSE IF ~Ok(res) THEN FallbackNotOk(res.status)
  ELSE IF ~res.json THEN Throw(JSON_ERROR, "")
  ELSE FallbackContent(res)

\* modelUsed = "groq" (and the tag left at its initial value)
ModelUsedNotUpdated == "gemini"

ModelUsedOnFallback == "groq"

(* -------------------------------- state ------------------------------- *)

Requests == {"req1", "req2"}
ResumeIds == {"resume1"}

RequestBody ==
  [resumeId : ResumeIds, customerName : CustomerNames, language : Languages,
   includeQuestions : BOOLEAN, fileUrl : FileUrls, fileType : FileTypes]

NoBody ==
  [resumeId |-> Undefined, customerName |-> Undefined, language |-> Undefined,
   includeQuestions |-> FALSE, fileUrl |-> Undefined, fileType |-> Undefined]

\* statuses the storage answers a file fetch with
FileStatuses == {200, 404}

VARIABLES
  LOVABLE_API_KEY,   \* Deno.env.get("LOVABLE_API_KEY"): "" when not configured
  resumes,           \* table resumes: resume id -> extracted_text (or NULL)
  ai_messages,       \* table ai_messages: the rows inserted, in order
  pc,                \* per request: the await the handler is suspended at
  body,              \* per request: the parsed RequestBody
  includeAtsScore,   \* per request: let includeAtsScore
  fileResponse,      \* per request: `response` of extractTextFromFile
  extraction,        \* per request: the promise extractTextFromFile returned
  extractedText,     \* per request: const extractedText
  prompt,            \* per request: const prompt
  calls,             \* per request: the completion requests sent so far
  geminiResponse,    \* per request: geminiResponse, as settled; what the
                     \* fallback catch holds of it (geminiError) ends with
                     \* that block
  fallbackResponse,  \* per request: fallbackResponse, as settled
  modelUsed,         \* per request: let modelUsed
  generatedMessage,  \* per request: let generatedMessage
  response,          \* per request: the Response returned to the caller
  writes,            \* per request: the table writes issued so far, each
                     \* with the row sent and whether it came back an error
  fnCall,            \* one call of a pure function taken on its own: its
                     \* arguments and, once applied, its result
  templateTable,     \* table message_templates, the rows of the signed-in
                     \* user: template id -> whether the row exists and its
                     \* is_default
  saves,             \* TemplatesPage, per open page: where handleSave is
                     \* suspended, the form it captured and `saving`
  submit             \* HistoryPage: where handleSubmit is suspended, the
                     \* form, `loading` and the steps issued so far

db == <<resumes, ai_messages, writes>>
locals == <<body, includeAtsScore, fileResponse, extraction, extractedText,
            prompt, calls, geminiResponse, fallbackResponse, modelUsed,
            generatedMessage>>
pages == <<templateTable, saves, submit>>
vars == <<LOVABLE_API_KEY, db, pc, locals, response, fnCall, pages>>

NullText == [null |-> TRUE, extracted_text |-> <<>>]

\* no function is called on its own
NoCall == [fn |-> "none", applied |-> FALSE]

\* the ids of the templates of the signed-in user
TemplateIds == {"template1", "template2"}

\* the pages of the dashboard that can be open at once
Tabs == {"tab1", "tab2"}

\* a page on which handleSave is not running
SaveIdle ==
  [pc |-> "idle", saving |-> FALSE, isDefault |-> FALSE,
   editingTemplate |-> Undefined]

\* the form of HistoryPage as the page opens it, and no submit running
SubmitIdle ==
  [pc |-> "idle", loading |-> FALSE, customerName |-> "", file |-> Undefined,
   language |-> "english", generatedMessage |-> "", steps |-> <<>>]

\* no template stored, no dashboard page at work
PagesIdle ==
  /\ templateTable = [id \in TemplateIds |->
                        [exists |-> FALSE, is_default |-> FALSE]]
  /\ saves = [t \in Tabs |-> SaveIdle]
  /\ submit = SubmitIdle

InitRequest(active) ==
  /\ LOVABLE_API_KEY \in {"", "key"}
  /\ resumes = [id \in ResumeIds |-> NullText]
  /\ ai_messages = <<>>
  /\ pc = [r \in Requests |-> IF r \in active THEN "idle" ELSE "absent"]
  /\ body = [r \in Requests |-> NoBody]
  /\ includeAtsScore = [r \in Requests |-> FALSE]
  /\ fileResponse = [r \in Requests |-> NoResponse]
  /\ extraction = [r \in Requests |-> NotCalled]
  /\ extractedText = [r \in Requests |-> <<>>]
  /\ prompt = [r \in Requests |-> <<>>]
  /\ calls = [r \in Requests |-> <<>>]
  /\ geminiResponse = [r \in Requests |-> NoResponse]
  /\ fallbackResponse = [r \in Requests |-> NoResponse]
  /\ modelUsed = [r \in Requests |-> Undefined]
  /\ generatedMessage = [r \in Requests |-> ""]
  /\ response = [r \in Requests |-> NotSent]
  /\ writes = [r \in Requests |-> <<>>]

\* one request arrives
Init == InitRequest({"req1"}) /\ fnCall = NoCall /\ PagesIdle

(* ------------------------------- handler ------------------------------ *)

Goto(r, label) == pc' = [pc EXCEPT ![r] = label]

\* a Response kept in one place for all requests
RespondShared(r, res) ==
  /\ response' = [q \in Requests |-> res]
  /\ Goto(r, "done")

\* the handler returns a Response
Respond(r, res) ==
  /\ response' = [response EXCEPT ![r] = res]
  /\ Goto(r, "done")

\* const extractedText = await extractTextFromFile(fileUrl, fileType), once
\* the promise has settled: a rejection goes to the outer catch
AwaitExtract(r, promise) ==
  /\ extraction' = [extraction EXCEPT ![r] = promise]
  /\ IF promise.state = "rejected"
     THEN /\ Respond(r, OuterCatch(Err(promise.error)))
          /\ UNCHANGED extractedText
     ELSE /\ extractedText' = [extractedText EXCEPT ![r] = promise.value]
          /\ Goto(r, "updateResume")
          /\ UNCHANGED response

\* extractTextFromFile is called: fetch(fileUrl) is in flight
CallExtract(r) ==
  /\ extraction' = [extraction EXCEPT ![r] = Pending]
  /\ Goto(r, "fetchFile")

\* the step below without the key check
ServeNoKeyCheck(r) ==
  /\ pc[r] = "idle"
  /\ \E method \in {"OPTIONS", "POST"} :
       IF method = "OPTIONS" THEN Respond(r, Preflight)
       ELSE Goto(r, "json") /\ UNCHANGED response
  /\ UNCHANGED <<fnCall, pages, LOVABLE_API_KEY, db, locals>>

\* serve(async (req) => ...): OPTIONS, the key check, then await req.json()
Serve(r) ==
  /\ pc[r] = "idle"
  /\ \E method \in {"OPTIONS", "POST"} :
       IF method = "OPTIONS" THEN Respond(r, Preflight)
       ELSE IF LOVABLE_API_KEY = ""
            THEN Respond(r, OuterCatch(Err("LOVABLE_API_KEY is not configured")))
            ELSE Goto(r, "json") /\ UNCHANGED response
  /\ UNCHANGED <<fnCall, pages, LOVABLE_API_KEY, db, locals>>

\* req.json() settles; createClient; the Authorization header is read
ReqJson(r) ==
  /\ pc[r] = "json"
  /\ \/ /\ Respond(r, OuterCatch(Err(JSON_ERROR)))
        /\ UNCHANGED <<body, includeAtsScore, extraction>>
     \/ \E b \in RequestBody, authHeader \in BOOLEAN :
          /\ body' = [body EXCEPT ![r] = b]
          /\ includeAtsScore' = [includeAtsScore EXCEPT ![r] = FALSE]
          /\ IF authHeader
             THEN Goto(r, "getUser") /\ UNCHANGED extraction
             ELSE CallExtract(r)
          /\ UNCHANGED response
  /\ UNCHANGED <<fnCall, pages, LOVABLE_API_KEY, db, fileResponse, extractedText, prompt, calls,
                 geminiResponse, fallbackResponse, modelUsed, generatedMessage>>

\* supabase.auth.getUser(token) settles
GetUser(r) ==
  /\ pc[r] = "getUser"
  /\ \E user \in BOOLEAN :
       IF user THEN Goto(r, "settings") /\ UNCHANGED extraction
               ELSE CallExtract(r)
  /\ UNCHANGED <<fnCall, pages, LOVABLE_API_KEY, db, body, includeAtsScore, fileResponse,
                 extractedText, prompt, calls, geminiResponse, fallbackResponse,
                 modelUsed, generatedMessage, response>>

\* the user_settings select settles: settings?.include_ats_score || false
GetSettings(r) ==
  /\ pc[r] = "settings"
  /\ \E include_ats_score \in BOOLEAN :
       includeAtsScore' = [includeAtsScore EXCEPT ![r] = include_ats_score]
  /\ CallExtract(r)
  /\ UNCHANGED <<fnCall, pages, LOVABLE_API_KEY, db, body, fileResponse, extractedText, prompt,
                 calls, geminiResponse, fallbackResponse, modelUsed,
                 generatedMessage, response>>

\* extractTextFromFile: await fetch(fileUrl) settles; if (!response.ok) throw
FetchFile(r) ==
  /\ pc[r] = "fetchFile"
  /\ \E res \in {Threw} \cup {HttpError(st) : st \in FileStatuses \ {200}}
                 \cup {HttpOk(Undefined)} :
       /\ fileResponse' = [fileResponse EXCEPT ![r] = res]
       /\ IF res.kind = "threw"
          THEN AwaitExtract(r, ExtractCatch(Err(TRANSPORT_ERROR),
                                            body[r].fileUrl, body[r].fileType))
          ELSE IF ~Ok(res)
          THEN AwaitExtract(r, ExtractCatch(Err("Failed to fetch file"),
                                            body[r].fileUrl, body[r].fileType))
          ELSE Goto(r, "arrayBuffer") /\ UNCHANGED <<extraction, extractedText, response>>
  /\ UNCHANGED <<fnCall, pages, LOVABLE_API_KEY, db, body, includeAtsScore, prompt, calls,
                 geminiResponse, fallbackResponse, modelUsed, generatedMessage>>

\* extractTextFromFile: await response.arrayBuffer() settles with a body out
\* of bodies (or rejects), then the decode, the scan and the length gate
ReadBodyFrom(r, bodies) ==
  /\ pc[r] = "arrayBuffer"
  /\ \/ AwaitExtract(r, ExtractCatch(Err(TRANSPORT_ERROR),
                                     body[r].fileUrl, body[r].fileType))
     \/ \E bytes \in bodies :
          AwaitExtract(r, ExtractTry(bytes, body[r].fileUrl, body[r].fileType))
  /\ UNCHANGED <<fnCall, pages, LOVABLE_API_KEY, db, body, includeAtsScore, fileResponse, prompt,
                 calls, geminiResponse, fallbackResponse, modelUsed,
                 generatedMessage>>

\* the step above for any file body
ReadBody(r) == ReadBodyFrom(r, FileBodies)

\* an archive copy that is not cut
ArchivedTextUncut(text) == text

\* extractedText.substring(0, 50000)
ArchivedText(text) == Substring0(text, ArchiveLimit)

\* .from("resumes").update({ extracted_text: ... }).eq("id", resumeId), with
\* whether it came back an error
ResumeWrite(r, error) ==
  [table |-> "resumes",
   row |-> [id |-> body[r].resumeId,
            extracted_text |-> ArchivedText(extractedText[r])],
   error |-> error]

\* the step below with a failed update thrown to the outer catch
UpdateResumeThrowOnError(r) ==
  /\ pc[r] = "updateResume"
  /\ \E updated \in BOOLEAN :
       /\ writes' = [writes EXCEPT ![r] = Append(@, ResumeWrite(r, ~updated))]
       /\ IF updated
          THEN /\ resumes' = [resumes EXCEPT ![body[r].resumeId] =
                               [null |-> FALSE,
                                extracted_text |-> ArchivedText(extractedText[r])]]
               /\ prompt' = [prompt EXCEPT ![r] =
                               buildPrompt(body[r].customerName, extractedText[r],
                                           body[r].language, body[r].includeQuestions,
                                           includeAtsScore[r])]
               /\ modelUsed' = [modelUsed EXCEPT ![r] = "gemini"]
               /\ calls' = [calls EXCEPT ![r] = Append(@, Completion(GEMINI_MODEL, prompt'[r]))]
               /\ Goto(r, "gemini")
               /\ UNCHANGED response
          ELSE /\ Respond(r, OuterCatch(Err("update failed")))
               /\ UNCHANGED <<resumes, prompt, modelUsed, calls>>
  /\ UNCHANGED <<fnCall, pages, LOVABLE_API_KEY, ai_messages, body, includeAtsScore, fileResponse,
                 extraction, extractedText, geminiResponse, fallbackResponse,
                 generatedMessage>>

\* the step below with both completions sent at once
UpdateResumeSpeculative(r) ==
  /\ pc[r] = "updateResume"
  /\ \E updated \in BOOLEAN :
       /\ resumes' = IF updated
                     THEN [resumes EXCEPT ![body[r].resumeId] =
                             [null |-> FALSE,
                              extracted_text |-> ArchivedText(extractedText[r])]]
                     ELSE resumes
       /\ writes' = [writes EXCEPT ![r] = Append(@, ResumeWrite(r, ~updated))]
  /\ prompt' = [prompt EXCEPT ![r] =
                  buildPrompt(body[r].customerName, extractedText[r],
                              body[r].language, body[r].includeQuestions,
                              includeAtsScore[r])]
  /\ modelUsed' = [modelUsed EXCEPT ![r] = "gemini"]
  /\ generatedMessage' = [generatedMessage EXCEPT ![r] = ""]
  /\ calls' = [calls EXCEPT ![r] =
                 <<Completion(GEMINI_MODEL, prompt'[r]),
                   Completion(FALLBACK_MODEL, prompt'[r])>>]
  /\ Goto(r, "gemini")
  /\ UNCHANGED <<fnCall, pages, LOVABLE_API_KEY, ai_messages, body, includeAtsScore,
                 fileResponse, extraction, extractedText, geminiResponse,
                 fallbackResponse, response>>

\* the resumes update settles (its error is not looked at); buildPrompt;
\* modelUsed = "gemini"; the Gemini completion is sent
UpdateResume(r) ==
  /\ pc[r] = "updateResume"
  /\ \E updated \in BOOLEAN :
       /\ resumes' = IF updated
                     THEN [resumes EXCEPT ![body[r].resumeId] =
                             [null |-> FALSE,
                              extracted_text |-> ArchivedText(extractedText[r])]]
                     ELSE resumes
       /\ writes' = [writes EXCEPT ![r] = Append(@, ResumeWrite(r, ~updated))]
  /\ prompt' = [prompt EXCEPT ![r] =
                  buildPrompt(body[r].customerName, extractedText[r],
                              body[r].language, body[r].includeQuestions,
                              includeAtsScore[r])]
  /\ modelUsed' = [modelUsed EXCEPT ![r] = "gemini"]
  /\ generatedMessage' = [generatedMessage EXCEPT ![r] = ""]
  /\ calls' = [calls EXCEPT ![r] = Append(@, Completion(GEMINI_MODEL, prompt'[r]))]
  /\ Goto(r, "gemini")
  /\ UNCHANGED <<fnCall, pages, LOVABLE_API_KEY, ai_messages, body, includeAtsScore, fileResponse,
                 extraction, extractedText, geminiResponse, fallbackResponse,
                 response>>

\* the Gemini fetch settles; on a throw of the try block: modelUsed = "groq"
\* and the fallback completion is sent; otherwise the ai_messages insert
GeminiResponse(r) ==
  /\ pc[r] = "gemini"
  /\ \E res \in ProviderOutcomes(GEMINI_MODEL) :
       LET out == GeminiTry(res)
       IN /\ geminiResponse' = [geminiResponse EXCEPT ![r] = res]
          /\ generatedMessage' = [generatedMessage EXCEPT ![r] = out.generatedMessage]
          /\ IF out.threw
             THEN /\ modelUsed' = [modelUsed EXCEPT ![r] = ModelUsedOnFallback]
                  /\ calls' = [calls EXCEPT ![r] =
                                 Append(@, Completion(FALLBACK_MODEL, prompt[r]))]
                  /\ Goto(r, "fallback")
             ELSE /\ Goto(r, "insert")
                  /\ UNCHANGED <<modelUsed, calls>>
  /\ UNCHANGED <<fnCall, pages, LOVABLE_API_KEY, db, body, includeAtsScore, fileResponse,
                 extraction, extractedText, prompt, fallbackResponse, response>>

\* the step below with a failed fallback sent again
FallbackResponseRetry(r) ==
  /\ pc[r] = "fallback"
  /\ \E res \in ProviderOutcomes(FALLBACK_MODEL) :
       LET out == FallbackCatch(res)
       IN /\ fallbackResponse' = [fallbackResponse EXCEPT ![r] = res]
          /\ geminiResponse' = [geminiResponse EXCEPT ![r] = NoResponse]
          /\ generatedMessage' = [generatedMessage EXCEPT ![r] = out.generatedMessage]
          /\ IF out.kind = "return" THEN Respond(r, out.response) /\ UNCHANGED calls
             ELSE IF out.kind = "throw"
             THEN /\ calls' = [calls EXCEPT ![r] =
                                 Append(@, Completion(FALLBACK_MODEL, prompt[r]))]
                  /\ UNCHANGED <<pc, response>>
             ELSE Goto(r, "insert") /\ UNCHANGED <<response, calls>>
  /\ UNCHANGED <<fnCall, pages, LOVABLE_API_KEY, db, body, includeAtsScore, fileResponse,
                 extraction, extractedText, prompt, modelUsed>>

\* the step below with the archived text taken back when the request fails
FallbackResponseRollback(r) ==
  /\ pc[r] = "fallback"
  /\ \E res \in ProviderOutcomes(FALLBACK_MODEL) :
       LET out == FallbackCatch(res)
       IN /\ fallbackResponse' = [fallbackResponse EXCEPT ![r] = res]
          /\ geminiResponse' = [geminiResponse EXCEPT ![r] = NoResponse]
          /\ generatedMessage' = [generatedMessage EXCEPT ![r] = out.generatedMessage]
          /\ IF out.kind = "return"
             THEN Respond(r, out.response) /\ UNCHANGED resumes
             ELSE IF out.kind = "throw"
             THEN /\ Respond(r, OuterCatch(out.error))
                  /\ resumes' = [resumes EXCEPT ![body[r].resumeId] = NullText]
             ELSE Goto(r, "insert") /\ UNCHANGED <<response, resumes>>
  /\ UNCHANGED <<fnCall, pages, LOVABLE_API_KEY, ai_messages, writes, body,
                 includeAtsScore, fileResponse, extraction, extractedText,
                 prompt, calls, modelUsed>>

\* the fallback fetch settles and the catch block runs to its end, where
\* what the Gemini attempt left (geminiError) goes out of scope
FallbackResponse(r) ==
  /\ pc[r] = "fallback"
  /\ \E res \in ProviderOutcomes(FALLBACK_MODEL) :
       LET out == FallbackCatch(res)
       IN /\ fallbackResponse' = [fallbackResponse EXCEPT ![r] = res]
          /\ geminiResponse' = [geminiResponse EXCEPT ![r] = NoResponse]
          /\ generatedMessage' = [generatedMessage EXCEPT ![r] = out.generatedMessage]
          /\ IF out.kind = "return" THEN Respond(r, out.response)
             ELSE IF out.kind = "throw" THEN Respond(r, OuterCatch(out.error))
             ELSE Goto(r, "insert") /\ UNCHANGED response
  /\ UNCHANGED <<fnCall, pages, LOVABLE_API_KEY, db, body, includeAtsScore, fileResponse,
                 extraction, extractedText, prompt, calls, modelUsed>>

\* the writes request r has issued to table
WritesTo(r, table) == {i \in DOMAIN writes[r] : writes[r][i].table = table}

\* a row that names the model asked instead of the provider tag
MessageRowModelName(r) ==
  [resume_id |-> body[r].resumeId, language |-> body[r].language,
   generated_message |-> generatedMessage[r],
   model_used |-> calls[r][Len(calls[r])].model,
   include_interview_questions |-> body[r].includeQuestions]

\* the row handed to the ai_messages insert
MessageRow(r) ==
  [resume_id |-> body[r].resumeId, language |-> body[r].language,
   generated_message |-> generatedMessage[r], model_used |-> modelUsed[r],
   include_interview_questions |-> body[r].includeQuestions]

\* .from("ai_messages").insert({...}), with whether it came back an error
MessageWrite(r, error) ==
  [table |-> "ai_messages", row |-> MessageRow(r), error |-> error]

\* the step below with a failed insert sent again
InsertMessageRetry(r) ==
  /\ pc[r] = "insert"
  /\ \E insertError \in BOOLEAN :
       /\ ai_messages' = IF insertError THEN ai_messages
                                        ELSE Append(ai_messages, MessageRow(r))
       /\ writes' = [writes EXCEPT ![r] = Append(@, MessageWrite(r, insertError))]
       /\ IF insertError /\ WritesTo(r, "ai_messages") = {}
          THEN UNCHANGED <<pc, response>>
          ELSE Respond(r, SuccessResponse(generatedMessage[r], modelUsed[r]))
  /\ UNCHANGED <<fnCall, pages, LOVABLE_API_KEY, resumes, locals>>

\* the step below with a failed insert thrown to the outer catch
InsertMessageThrowOnError(r) ==
  /\ pc[r] = "insert"
  /\ \E insertError \in BOOLEAN :
       /\ ai_messages' = IF insertError THEN ai_messages
                                        ELSE Append(ai_messages, MessageRow(r))
       /\ writes' = [writes EXCEPT ![r] = Append(@, MessageWrite(r, insertError))]
       /\ IF insertError
          THEN Respond(r, OuterCatch(Err("insert failed")))
          ELSE Respond(r, SuccessResponse(generatedMessage[r], modelUsed[r]))
  /\ UNCHANGED <<fnCall, pages, LOVABLE_API_KEY, resumes, locals>>

\* the ai_messages insert settles (insertError is only logged); the success
\* response is returned
InsertMessage(r) ==
  /\ pc[r] = "insert"
  /\ \E insertError \in BOOLEAN :
       /\ ai_messages' = IF insertError THEN ai_messages
                                        ELSE Append(ai_messages, MessageRow(r))
       /\ writes' = [writes EXCEPT ![r] = Append(@, MessageWrite(r, insertError))]
  /\ Respond(r, SuccessResponse(generatedMessage[r], modelUsed[r]))
  /\ UNCHANGED <<fnCall, pages, LOVABLE_API_KEY, resumes, locals>>

Next ==
  \E r \in Requests :
    \/ Serve(r)
    \/ ReqJson(r)
    \/ GetUser(r)
    \/ GetSettings(r)
    \/ FetchFile(r)
    \/ ReadBody(r)
    \/ UpdateResume(r)
    \/ GeminiResponse(r)
    \/ FallbackResponse(r)
    \/ InsertMessage(r)

Spec == Init /\ [][Next]_vars

(* --------------------------- two requests at once --------------------- *)

\* the bodies of two requests for one resume
TwoBodies ==
  [req1 |-> [resumeId |-> "resume1", customerName |-> "Asha",
             language |-> "english", includeQuestions |-> TRUE,
             fileUrl |-> "https://storage/resumes/r1", fileType |-> "pdf"],
   req2 |-> [resumeId |-> "resume1", customerName |-> "Asha",
             language |-> "tamil", includeQuestions |-> FALSE,
             fileUrl |-> "https://storage/resumes/r1", fileType |-> "docx"]]

\* the file the storage serves: as a PDF it is one long string, as a DOCX
\* one long run of text
StoredBodies ==
  { <<Tok("(", 1), Tok("a", ArchiveLimit + 1), Tok(")", 1)>> }

\* two requests have been received and parsed and each has called
\* extractTextFromFile: both wait for the file fetch
InitConcurrent ==
  /\ LOVABLE_API_KEY = "key"
  /\ resumes = [id \in ResumeIds |-> NullText]
  /\ ai_messages = <<>>
  /\ writes = [r \in Requests |-> <<>>]
  /\ pc = [r \in Requests |-> "fetchFile"]
  /\ body = TwoBodies
  /\ includeAtsScore \in [Requests -> BOOLEAN]
  /\ fileResponse = [r \in Requests |-> NoResponse]
  /\ extraction = [r \in Requests |-> Pending]
  /\ extractedText = [r \in Requests |-> <<>>]
  /\ prompt = [r \in Requests |-> <<>>]
  /\ calls = [r \in Requests |-> <<>>]
  /\ geminiResponse = [r \in Requests |-> NoResponse]
  /\ fallbackResponse = [r \in Requests |-> NoResponse]
  /\ modelUsed = [r \in Requests |-> Undefined]
  /\ generatedMessage = [r \in Requests |-> ""]
  /\ response = [r \in Requests |-> NotSent]
  /\ fnCall = NoCall
  /\ PagesIdle

\* the body of the stored file is read
ReadStoredBody(r) == ReadBodyFrom(r, StoredBodies)

\* the two handlers advance one await at a time, in any order
NextConcurrent ==
  \E r \in Requests :
    \/ FetchFile(r)
    \/ ReadStoredBody(r)
    \/ UpdateResume(r)
    \/ GeminiResponse(r)
    \/ FallbackResponse(r)
    \/ InsertMessage(r)

SpecConcurrent == InitConcurrent /\ [][NextConcurrent]_vars

(* ------------------------ TemplatesPage.handleSave -------------------- *)

\* a row that is not in the table
NoRow == [exists |-> FALSE, is_default |-> FALSE]

\* the tables the page can find: any rows, at most one of them the default
TemplateTables ==
  { tbl \in [TemplateIds -> [exists : BOOLEAN, is_default : BOOLEAN]] :
      /\ \A id \in TemplateIds : tbl[id].is_default => tbl[id].exists
      /\ Cardinality({id \in TemplateIds : tbl[id].is_default}) <= 1 }

\* the ids no row has yet, and the inserts that are on their way
FreeIds == {id \in TemplateIds : ~templateTable[id].exists}
PendingInserts ==
  {t \in Tabs : saves[t].pc # "idle" /\ saves[t].editingTemplate = Undefined}

InitTemplates ==
  /\ InitRequest({})
  /\ fnCall = NoCall
  /\ templateTable \in TemplateTables
  /\ saves = [t \in Tabs |-> SaveIdle]
  /\ submit = SubmitIdle

\* .update({ is_default: false }).eq('user_id', user.id)
UnsetDefaults(tbl) == [id \in TemplateIds |-> [tbl[id] EXCEPT !.is_default = FALSE]]

\* handleSave on page t up to its first await: the two early returns,
\* setSaving(true), templateData, and the first database call sent
StartSave(t) ==
  /\ saves[t].pc = "idle"
  /\ \E user \in BOOLEAN, name \in {"", "Fresher"}, isDefault \in BOOLEAN,
        editingTemplate \in {Undefined} \cup (TemplateIds \ FreeIds) :
       /\ editingTemplate = Undefined =>
            Cardinality(FreeIds) > Cardinality(PendingInserts)
       /\ saves' = IF ~user \/ name = ""
                   THEN saves
                   ELSE [saves EXCEPT ![t] =
                           [pc |-> IF isDefault THEN "unset" ELSE "write",
                            saving |-> TRUE, isDefault |-> isDefault,
                            editingTemplate |-> editingTemplate]]
  /\ UNCHANGED <<LOVABLE_API_KEY, db, pc, locals, response, fnCall,
                 templateTable, submit>>

\* the 'unset other defaults' update settles; its result is not looked at
UnsetSettles(t) ==
  /\ saves[t].pc = "unset"
  /\ \E error \in BOOLEAN :
       templateTable' = IF error THEN templateTable
                                 ELSE UnsetDefaults(templateTable)
  /\ saves' = [saves EXCEPT ![t].pc = "write"]
  /\ UNCHANGED <<LOVABLE_API_KEY, db, pc, locals, response, fnCall, submit>>

\* the update of the edited template, or the insert of a new one, settles;
\* then the catch and the finally
WriteSettles(t) ==
  /\ saves[t].pc = "write"
  /\ \E error \in BOOLEAN :
       LET id == IF saves[t].editingTemplate = Undefined
                 THEN CHOOSE free \in FreeIds : TRUE
                 ELSE saves[t].editingTemplate
       IN templateTable' =
            IF error THEN templateTable
            ELSE [templateTable EXCEPT ![id] =
                    [exists |-> TRUE, is_default |-> saves[t].isDefault]]
  /\ saves' = [saves EXCEPT ![t] = SaveIdle]
  /\ UNCHANGED <<LOVABLE_API_KEY, db, pc, locals, response, fnCall, submit>>

NextTemplates ==
  \E t \in Tabs :
    \/ StartSave(t)
    \/ UnsetSettles(t)
    \/ WriteSettles(t)

SpecTemplates == InitTemplates /\ [][NextTemplates]_vars

(* ------------------------ Dashboard.handleSubmit ---------------------- *)

\* what the shop assistant can have typed and picked before pressing Generate
TypedNames == {"", "  ", "Asha"}
PickedFiles == {Undefined, "resume.pdf", "resume.docx"}

\* customerName.trim()
TrimName(name) == IF name = "  " THEN "" ELSE name

\* the steps of a submit, in the order of the source
SubmitSteps == <<"upload", "customers", "resumes", "invoke">>

\* what supabase.functions.invoke resolves to: functionError, a body with an
\* error field, a body with the message, or no body at all
InvokeOutcomes == {"functionError", "dataError", "message", "noData"}

InitSubmit ==
  /\ InitRequest({})
  /\ fnCall = NoCall
  /\ templateTable = [id \in TemplateIds |-> NoRow]
  /\ saves = [t \in Tabs |-> SaveIdle]
  /\ \E name \in TypedNames, file \in PickedFiles, language \in Languages :
       submit = [SubmitIdle EXCEPT !.customerName = name, !.file = file,
                                   !.language = language]

\* step i of the submit is sent
Issue(i) == [name |-> SubmitSteps[i], outcome |-> "pending"]

\* the step in flight settles
Settle(steps, outcome) == [steps EXCEPT ![Len(steps)].outcome = outcome]

\* catch (error) { ... } finally { setLoading(false) }: the form is kept
SubmitCatch(outcome) ==
  submit' = [submit EXCEPT !.pc = "idle", !.loading = FALSE,
                           !.steps = Settle(@, outcome)]

\* a finally that clears the form as well
InvokeSettlesClearAlways ==
  /\ submit.pc = "invoke"
  /\ \E outcome \in InvokeOutcomes :
       submit' = [submit EXCEPT
                    !.pc = "idle", !.loading = FALSE,
                    !.steps = Settle(@, IF outcome = "message" THEN "ok" ELSE "error"),
                    !.generatedMessage =
                       IF outcome = "message" THEN "message of the edge function" ELSE @,
                    !.customerName = "", !.file = Undefined]
  /\ UNCHANGED <<LOVABLE_API_KEY, db, pc, locals, response, fnCall,
                 templateTable, saves>>

\* handleSubmit up to its first await: the two checks, setLoading(true),
\* setGeneratedMessage(''), and the upload sent
HandleSubmit ==
  /\ submit.pc = "idle"
  /\ submit' = IF TrimName(submit.customerName) = "" \/ submit.file = Undefined
               THEN submit
               ELSE [submit EXCEPT !.pc = "upload", !.loading = TRUE,
                                   !.generatedMessage = "",
                                   !.steps = <<Issue(1)>>]
  /\ UNCHANGED <<LOVABLE_API_KEY, db, pc, locals, response, fnCall,
                 templateTable, saves>>

\* the storage upload settles; the customers insert is sent
UploadSettles ==
  /\ submit.pc = "upload"
  /\ \E uploadError \in BOOLEAN :
       IF uploadError THEN SubmitCatch("error")
       ELSE submit' = [submit EXCEPT !.pc = "customer",
                                     !.steps = Append(Settle(@, "ok"), Issue(2))]
  /\ UNCHANGED <<LOVABLE_API_KEY, db, pc, locals, response, fnCall,
                 templateTable, saves>>

\* the customers insert settles; the resumes insert is sent
CustomerSettles ==
  /\ submit.pc = "customer"
  /\ \E customerError \in BOOLEAN :
       IF customerError THEN SubmitCatch("error")
       ELSE submit' = [submit EXCEPT !.pc = "resume",
                                     !.steps = Append(Settle(@, "ok"), Issue(3))]
  /\ UNCHANGED <<LOVABLE_API_KEY, db, pc, locals, response, fnCall,
                 templateTable, saves>>

\* the resumes insert settles; the edge function is invoked
ResumeSettles ==
  /\ submit.pc = "resume"
  /\ \E resumeError \in BOOLEAN :
       IF resumeError THEN SubmitCatch("error")
       ELSE submit' = [submit EXCEPT !.pc = "invoke",
                                     !.steps = Append(Settle(@, "ok"), Issue(4))]
  /\ UNCHANGED <<LOVABLE_API_KEY, db, pc, locals, response, fnCall,
                 templateTable, saves>>

\* the invoke settles: the message is shown and the form reset, or the
\* catch; then the finally
InvokeSettles ==
  /\ submit.pc = "invoke"
  /\ \E outcome \in InvokeOutcomes :
       IF outcome = "message"
       THEN submit' = [submit EXCEPT
                         !.pc = "idle", !.loading = FALSE,
                         !.steps = Settle(@, "ok"),
                         !.generatedMessage = "message of the edge function",
                         !.customerName = "", !.file = Undefined]
       ELSE SubmitCatch("error")
  /\ UNCHANGED <<LOVABLE_API_KEY, db, pc, locals, response, fnCall,
                 templateTable, saves>>

\* the name is typed or a file picked; the inputs are disabled while loading
EditForm ==
  /\ ~submit.loading
  /\ \E name \in TypedNames, file \in PickedFiles \ {Undefined} :
       \/ submit' = [submit EXCEPT !.customerName = name]
       \/ submit' = [submit EXCEPT !.file = file]
  /\ UNCHANGED <<LOVABLE_API_KEY, db, pc, locals, response, fnCall,
                 templateTable, saves>>

NextSubmit ==
  \/ EditForm
  \/ HandleSubmit
  \/ UploadSettles
  \/ CustomerSettles
  \/ ResumeSettles
  \/ InvokeSettles

SpecSubmit == InitSubmit /\ [][NextSubmit]_vars

(* ------------------- extractTextFromFile on its own ------------------- *)

\* a PDF content stream that shows one string: BT (Hello World) Tj ET
HelloWorld == Tok("Hello World", 11)
TextBlock ==
  << Tok("BT", 2), Tok(SP, 1), Tok("(", 1), HelloWorld, Tok(")", 1),
     Tok(SP, 1), Tok("Tj", 2), Tok(SP, 1), Tok("ET", 2) >>

\* file bodies that contain the content stream, after any other bytes
TextBlockBodies == {pre \o TextBlock : pre \in FileBodies}

\* the text the scan of a branch recovers, before the length gate: textContent
\* of the PDF branch, cleanText of the DOCX branch
RecoveredText(bytes, fileType) ==
  IF fileType = "pdf" THEN PdfTextContent(TextDecode(bytes))
                      ELSE DocxCleanText(TextDecode(bytes))

\* a call extractTextFromFile(fileUrl, fileType) whose fetch answers with a
\* success and the body bytes
ExtractCalls ==
  [fn : {"extractTextFromFile"}, applied : {FALSE},
   bytes : FileBodies \cup TextBlockBodies, fileUrl : FileUrls,
   fileType : FileTypes, recovered : {<<>>}, result : {<<>>}]

InitExtract == InitRequest({}) /\ fnCall \in ExtractCalls /\ PagesIdle

\* the call runs to its return
ApplyExtract ==
  /\ fnCall.fn = "extractTextFromFile"
  /\ ~fnCall.applied
  /\ fnCall' =
       [fnCall EXCEPT
          !.applied = TRUE,
          !.recovered = RecoveredText(fnCall.bytes, fnCall.fileType),
          !.result = ExtractTry(fnCall.bytes, fnCall.fileUrl, fnCall.fileType).value]
  /\ UNCHANGED <<LOVABLE_API_KEY, db, pc, locals, response, pages>>

NextExtract == ApplyExtract

SpecExtract == InitExtract /\ [][NextExtract]_vars

(* ----------------------- buildPrompt on its own ----------------------- *)

\* templates of the shop: message_templates rows, by id; of include_sections
\* the flag of the interview questions block
message_templates ==
  [id \in TemplateIds |->
     [include_sections |-> [interview_questions |-> (id = "template1")]]]

\* the body the dashboard sends: templateId is undefined when no template is
\* selected
DashboardBodies ==
  [customerName : CustomerNames \cup {"Ravi"}, language : Languages,
   includeQuestions : BOOLEAN, templateId : TemplateIds \cup {Undefined}]

\* texts extractTextFromFile returns
PromptTexts ==
  { <<Tok("a", MinTextLen)>>, <<Tok("a", MinTextLen), Tok(REPLACEMENT, 1)>> }
    \cup {Placeholder(u, t) : u \in FileUrls, t \in FileTypes}
    \cup {Fallback(u, t) : u \in FileUrls, t \in FileTypes}

\* the handler building the prompt of one request: the body received, the
\* extracted text and the user's ATS setting
PromptCalls ==
  [fn : {"buildPrompt"}, applied : {FALSE}, request : DashboardBodies,
   extractedText : PromptTexts, includeAtsScore : BOOLEAN, result : {<<>>}]

InitPrompt == InitRequest({}) /\ fnCall \in PromptCalls /\ PagesIdle

\* const { resumeId, customerName, language, includeQuestions, fileUrl,
\* fileType } = await req.json(); ...
\* const prompt = buildPrompt(customerName, extractedText, language,
\*                            includeQuestions, includeAtsScore)
ApplyPrompt ==
  /\ fnCall.fn = "buildPrompt"
  /\ ~fnCall.applied
  /\ fnCall' =
       [fnCall EXCEPT
          !.applied = TRUE,
          !.result = buildPrompt(fnCall.request.customerName,
                                 fnCall.extractedText,
                                 fnCall.request.language,
                                 fnCall.request.includeQuestions,
                                 fnCall.includeAtsScore)]
  /\ UNCHANGED <<LOVABLE_API_KEY, db, pc, locals, response, pages>>

NextPrompt == ApplyPrompt

SpecPrompt == InitPrompt /\ [][NextPrompt]_vars

(* ---------------------------- text containment ------------------------- *)

\* adjacent runs of one character written as one run
RECURSIVE Norm(_)
Norm(t) ==
  IF Len(t) < 2 THEN t
  ELSE IF Len(t[1].c) = 1 /\ t[1].c = t[2].c
       THEN Norm(<<Tok(t[1].c, t[1].n + t[2].n)>> \o SubSeq(t, 3, Len(t)))
       ELSE <<t[1]>> \o Norm(Tail(t))

\* the literals of the extraction results that have a space in them
SpacedLiterals ==
  { "Resume file from: ", ". File type: ",
    ". Please analyze based on typical resume structure.",
    ". Unable to extract full text, please provide general guidance.",
    "Hello World" }

\* token h has k copies of the character of run s in a row
HasRun(h, s) ==
  \/ h.c = s.c /\ h.n >= s.n
  \/ s.c = SP /\ s.n = 1 /\ h.c \in SpacedLiterals

\* String.prototype.includes: text s occurs in text t. A literal is one token
\* and occurs where that token does; a run of a character occurs in any run
\* of the character at least as long, so the first and the last token of s
\* may lie inside a longer run of t
Contains(t, s) ==
  LET h == Norm(t)
      n == Norm(s)
      m == Len(n)
  IN \/ m = 0
     \/ m = 1 /\ \E i \in 1..Len(h) : HasRun(h[i], n[1])
     \/ m > 1 /\ \E i \in 1..(Len(h) - m + 1) :
                   /\ h[i].c = n[1].c /\ h[i].n >= n[1].n
                   /\ h[i + m - 1].c = n[m].c /\ h[i + m - 1].n >= n[m].n
                   /\ \A j \in 2..(m - 1) : h[i + j - 1] = n[j]

(* ------------------------------- claims ------------------------------- *)

Sent(r) == pc[r] = "done"
Succeeded(r) == Sent(r) /\ response[r].json /\ response[r].status = 200
CallsTo(r, model) == {i \in DOMAIN calls[r] : calls[r][i].model = model}

\* the primary attempt failed, in the claim's terms: the call threw (the fetch
\* or the reading of its body), the status was not a success, or the content
\* of a success was empty or missing
PrimaryFailed(res) ==
  \/ res.kind = "threw"
  \/ res.kind = "http" /\ (res.status < 200 \/ res.status > 299)
  \/ res.kind = "http" /\ res.status = 200 /\ ~res.json
  \/ res.kind = "http" /\ res.status = 200 /\ res.content \in {"", Undefined}

\* C1: whatever the two providers answer, a request issues at most two
\* completion calls, at most one to the primary and at most one to the
\* secondary.
C1_AtMostTwoProviderCalls ==
  \A r \in Requests :
    /\ Len(calls[r]) <= 2
    /\ Cardinality(CallsTo(r, GEMINI_MODEL)) <= 1
    /\ Cardinality(CallsTo(r, FALLBACK_MODEL)) <= 1

\* the request ended after the secondary call failed too, with two calls made
C1_Witness ==
  \E r \in Requests :
    /\ Sent(r) /\ Len(calls[r]) = 2
    /\ fallbackResponse[r].kind = "threw"
    /\ response[r].status = 500

\* C2: the secondary is called exactly once if and only if the primary attempt
\* failed, with the same system instruction and the same prompt as the primary
\* call; when the primary returns non-empty content it is never called.
C2_FallbackIffPrimaryFailed ==
  \A r \in Requests :
    /\ geminiResponse[r].kind # "none" =>
         (Cardinality(CallsTo(r, FALLBACK_MODEL)) = 1
            <=> PrimaryFailed(geminiResponse[r]))
    /\ (geminiResponse[r].kind # "none" /\ ~PrimaryFailed(geminiResponse[r])) =>
         /\ Len(calls[r]) = 1
         /\ pc[r] \in {"insert", "done"}
    /\ CallsTo(r, FALLBACK_MODEL) # {} =>
         /\ Len(calls[r]) = 2
         /\ calls[r][1].model = GEMINI_MODEL
         /\ calls[r][2].model = FALLBACK_MODEL
         /\ calls[r][2].system = calls[r][1].system
         /\ calls[r][2].user = calls[r][1].user
         /\ calls[r][2].user = prompt[r]
    /\ (Succeeded(r) /\ response[r].message \in ContentOf(GEMINI_MODEL)) =>
         CallsTo(r, FALLBACK_MODEL) = {}

\* the primary answered a success with empty content and the secondary call
\* is in flight
C2_Witness ==
  \E r \in Requests :
    /\ pc[r] = "fallback"
    /\ geminiResponse[r] = HttpOk("")
    /\ Len(calls[r]) = 2

\* C3: in a successful response the provider tag names the provider whose
\* output is the returned message: the secondary's when the primary failed and
\* the secondary succeeded, the primary's when the primary returned content.
C3_TagNamesProvider ==
  \A r \in Requests :
    Succeeded(r) =>
      /\ response[r].model_used \in {"gemini", "groq"}
      /\ response[r].message \in (ContentOf(GEMINI_MODEL) \ {"", Undefined})
           => response[r].model_used = "gemini"
      /\ response[r].message \in (ContentOf(FALLBACK_MODEL) \ {"", Undefined})
           => response[r].model_used = "groq"
      /\ response[r].model_used = "groq" <=> Len(calls[r]) = 2
      /\ response[r].model_used = "gemini" <=> Len(calls[r]) = 1

\* a success whose text the secondary wrote
C3_Witness ==
  \E r \in Requests :
    /\ Succeeded(r)
    /\ Len(calls[r]) = 2
    /\ response[r].message \in (ContentOf(FALLBACK_MODEL) \ {"", Undefined})

C6_FourOutcomesOpaqueFailure ==
  \A r \in Requests :
    (Sent(r) /\ response[r] # Preflight) =>
      \/ /\ response[r].status = 200
         /\ response[r].message \notin {"", Undefined}
         /\ response[r].error = Undefined
      \/ response[r] = ErrorResponse(429, RATE_LIMIT_MESSAGE)
      \/ response[r] = ErrorResponse(402, CREDITS_MESSAGE)
      \/ response[r] = ErrorResponse(500, "Failed to generate message")

\* C7: a response reported as successful never carries an empty message: empty
\* or missing content from the primary triggers the fallback, and from the
\* secondary ends the request in failure.
C7_SuccessMessageNonEmpty ==
  \A r \in Requests :
    /\ Succeeded(r) => response[r].message \notin {"", Undefined}
    /\ geminiResponse[r] \in {HttpOk(""), HttpOk(Undefined)} =>
         pc[r] = "fallback" /\ Len(calls[r]) = 2
    /\ fallbackResponse[r] \in {HttpOk(""), HttpOk(Undefined)} =>
         Sent(r) /\ response[r].status = 500 /\ response[r].message = Undefined

\* the secondary answered a success with no content and the request failed
C7_Witness ==
  \E r \in Requests :
    /\ Sent(r)
    /\ fallbackResponse[r] = HttpOk(Undefined)
    /\ response[r].status = 500

\* C8: once extraction has started, the request leaves the extraction stage
\* only by issuing the primary provider call, whatever the file fetch and the
\* extractor did: no extraction fault ends the request first.
C8_ExtractionReachesCompletion ==
  \A r \in Requests :
    (extraction[r].state # "none"
       /\ pc[r] \notin {"fetchFile", "arrayBuffer", "updateResume"}) =>
      /\ Len(calls[r]) >= 1
      /\ calls[r][1].model = GEMINI_MODEL

\* the file fetch threw and the primary call was issued all the same
C8_Witness ==
  \E r \in Requests :
    /\ fileResponse[r].kind = "threw"
    /\ pc[r] = "gemini"
    /\ Len(calls[r]) = 1

\* C9: extractTextFromFile never raises to its caller: its promise is never
\* rejected, and once settled it holds a string, the fallback string when
\* fetching or reading threw.
C9_ExtractionNeverRaises ==
  \A r \in Requests :
    /\ extraction[r].state \in {"none", "pending", "fulfilled"}
    /\ extraction[r].state = "pending" <=> pc[r] \in {"fetchFile", "arrayBuffer"}
    /\ (fileResponse[r].kind \in {"threw", "http"} /\ ~Ok(fileResponse[r])) =>
         /\ extraction[r].state = "fulfilled"
         /\ extraction[r].value = Fallback(body[r].fileUrl, body[r].fileType)

\* the file was fetched, reading its body threw, and the fallback string was
\* returned
C9_Witness ==
  \E r \in Requests :
    /\ Ok(fileResponse[r])
    /\ extraction[r].state = "fulfilled"
    /\ extraction[r].value = Fallback(body[r].fileUrl, body[r].fileType)

\* C10: the text the extraction stage hands to buildPrompt is never the empty
\* string, for both file types, every fetch outcome and every file body.
C10_ExtractedTextNonEmpty ==
  \A r \in Requests :
    /\ extraction[r].state = "fulfilled" => TextLen(extraction[r].value) > 0
    /\ pc[r] \in {"updateResume", "gemini", "fallback", "insert"} =>
         TextLen(extractedText[r]) > 0
    /\ Len(calls[r]) >= 1 =>
         calls[r][1].user =
           buildPrompt(body[r].customerName, extractedText[r], body[r].language,
                       body[r].includeQuestions, includeAtsScore[r])

\* a PDF whose scan found too little text: the placeholder is handed on
C10_Witness ==
  \E r \in Requests :
    /\ body[r].fileType = "pdf"
    /\ pc[r] = "gemini"
    /\ extractedText[r] = Placeholder(body[r].fileUrl, body[r].fileType)

\* a phrase that tells the reader the text of the file was not recovered in
\* full: the closing sentence of either template
ExplainsLimitedExtraction(t) ==
  \/ Contains(t, <<Tok(". Please analyze based on typical resume structure.", 51)>>)
  \/ Contains(t, <<Tok(". Unable to extract full text, please provide general guidance.", 63)>>)

\* C11: whenever the text the PDF or DOCX scan recovers is shorter than 100
\* characters, the returned string contains both a phrase explaining that
\* extraction was limited and the recovered text itself.
C11_ShortTextWrappedNotDiscarded ==
  (fnCall.fn = "extractTextFromFile" /\ fnCall.applied
     /\ TextLen(fnCall.recovered) < 100) =>
    /\ ExplainsLimitedExtraction(fnCall.result)
    /\ Contains(fnCall.result, fnCall.recovered)

\* C12: for every file body and both file types, the string the extraction
\* returns is at most 15,000 characters long.
C12_ResultAtMost15000 ==
  (fnCall.fn = "extractTextFromFile" /\ fnCall.applied) =>
    TextLen(fnCall.result) <= 15000

\* C13: for PDF bytes that contain BT (Hello World) Tj ET, the text returned
\* is non-empty and contains "Hello World".
C13_HelloWorldKept ==
  (/\ fnCall.fn = "extractTextFromFile" /\ fnCall.applied
   /\ fnCall.fileType = "pdf" /\ fnCall.bytes \in TextBlockBodies) =>
    /\ TextLen(fnCall.result) > 0
    /\ Contains(fnCall.result, <<HelloWorld>>)

\* the file fetch of request r was answered with a status that is not a success
FileFetchRefused(r) ==
  /\ fileResponse[r].kind = "http"
  /\ fileResponse[r].status < 200 \/ fileResponse[r].status > 299

\* C14: when the file fetch answers with a non-success status, the extraction
\* does not fail the request: it returns a fallback string that names the
\* declared file type and asks for general guidance, the handler goes on with
\* that string, and the body of the response is never read or scanned.
C14_RefusedFetchFallsBack ==
  \A r \in Requests :
    FileFetchRefused(r) =>
      /\ extraction[r].state = "fulfilled"
      /\ Contains(extraction[r].value, <<TypeTok(body[r].fileType)>>)
      /\ Contains(extraction[r].value,
                  <<Tok(". Unable to extract full text, please provide general guidance.", 63)>>)
      /\ extractedText[r] = extraction[r].value
      /\ pc[r] \notin {"fetchFile", "arrayBuffer"}
      /\ Sent(r) => response[r] # OuterCatch(Err("Failed to fetch file"))

C14_Witness ==
  \E r \in Requests :
    /\ FileFetchRefused(r)
    /\ pc[r] = "updateResume"
    /\ extractedText[r] = Fallback(body[r].fileUrl, body[r].fileType)

\* the prompt of a call that has run
Built == fnCall.fn = "buildPrompt" /\ fnCall.applied

\* the number of places block occurs at in prompt t
Count(t, block) == Cardinality({i \in DOMAIN t : t[i] = block})

\* C15: when the request carries a template whose interview_questions flag is
\* false while includeQuestions is true, the template's flag wins: the prompt
\* has no interview questions block.
C15_TemplateFlagWins ==
  (/\ Built
   /\ fnCall.request.templateId \in TemplateIds
   /\ fnCall.request.includeQuestions) =>
    LET template == message_templates[fnCall.request.templateId]
    IN ~template.include_sections.interview_questions =>
         Count(fnCall.result, QuestionsBlock) = 0

\* the index of the first occurrence of block in prompt t, 0 when it has none
IndexOf(t, block) ==
  IF Count(t, block) = 0 THEN 0
  ELSE CHOOSE i \in DOMAIN t :
         t[i] = block /\ \A j \in 1..(i - 1) : t[j] # block

\* C16: every prompt built, for every customer name, extracted text and
\* configuration, has the instruction to include the disclaimer verbatim, in
\* its closing block of rules.
C16_DisclaimerRuleAlways ==
  Built =>
    LET rules == IndexOf(fnCall.result, Tok("\n\nIMPORTANT RULES:\n1. ", 22))
        disclaimer ==
          IndexOf(fnCall.result,
                  Tok("\n5. MUST include this disclaimer at the end: \":memo: Note: This is general guidance based on your resume. Results may vary. Best wishes! :pray:\"", 136))
    IN /\ rules > 0
       /\ disclaimer > rules
       /\ disclaimer > IndexOf(fnCall.result, EncouragementBlock)

C16_Witness ==
  /\ Built
  /\ fnCall.request.language = "both"
  /\ fnCall.request.includeQuestions
  /\ fnCall.includeAtsScore
  /\ fnCall.extractedText \in {Fallback(u, "pdf") : u \in FileUrls}

\* the three instructions the language setting chooses from
EnglishOnly == Tok("Write the entire message in English only.", 41)
TamilOnly == Tok("Write the entire message in Tamil language only.", 48)
EnglishThenTamil ==
  Tok("Write the message in both English and Tamil. First provide the English version, then the Tamil version.", 103)

\* C17: the prompt has exactly one of the three language instructions, the one
\* of the language setting: English only for english, Tamil only for tamil,
\* English first and then Tamil for both; the other two do not occur.
C17_OneLanguageInstruction ==
  Built =>
    LET chosen == CASE fnCall.request.language = "english" -> EnglishOnly
                    [] fnCall.request.language = "tamil" -> TamilOnly
                    [] fnCall.request.language = "both" -> EnglishThenTamil
    IN \A instruction \in {EnglishOnly, TamilOnly, EnglishThenTamil} :
         Count(fnCall.result, instruction) = (IF instruction = chosen THEN 1 ELSE 0)

C17_Witness ==
  /\ Built
  /\ fnCall.request.language = "both"
  /\ Count(fnCall.result, EnglishThenTamil) = 1

\* prompt t with every occurrence of block taken out
Without(t, block) == SelectSeq(t, LAMBDA x : x # block)

C20_SectionOrderFixed ==
  Built =>
    LET order == << AppreciationBlock, FeedbackBlock, GuidanceBlock,
                    JobRolesBlock, QuestionsBlock, AtsBlock,
                    EncouragementBlock >>
        pos(k) == IndexOf(fnCall.result, order[k])
    IN /\ \A k \in DOMAIN order : Count(fnCall.result, order[k]) <= 1
       /\ \A k \in {1, 2, 3, 4, 7} : pos(k) > 0
       /\ \A k, l \in DOMAIN order :
            (k < l /\ pos(k) > 0 /\ pos(l) > 0) => pos(k) < pos(l)

C20_Witness ==
  /\ Built
  /\ Count(fnCall.result, QuestionsBlock) = 1
  /\ Count(fnCall.result, AtsBlock) = 1

\* the content the provider that answered last returned to request r
ProvidedContent(r) ==
  IF fallbackResponse[r] # NoResponse THEN fallbackResponse[r].content
                                      ELSE geminiResponse[r].content

\* the tag of the provider that answered last
ProviderTag(r) == IF fallbackResponse[r] # NoResponse THEN "groq" ELSE "gemini"

\* C21: a failure of the step that stores the generated message does not
\* undo a successful generation: when a provider returned non-empty content
\* and the message insert came back an error, the caller still gets the
\* success response, with that message and the tag of that provider.
C21_InsertErrorStillSuccess ==
  \A r \in Requests :
    (/\ Sent(r)
     /\ ProvidedContent(r) \notin {"", Undefined}
     /\ \E i \in WritesTo(r, "ai_messages") : writes[r][i].error) =>
      response[r] = SuccessResponse(ProvidedContent(r), ProviderTag(r))

C21_Witness ==
  \E r \in Requests :
    /\ Sent(r)
    /\ fallbackResponse[r] = HttpOk("message written by gpt-5-mini")
    /\ \E i \in WritesTo(r, "ai_messages") : writes[r][i].error
    /\ ai_messages = <<>>
    /\ response[r].status = 200

\* C22: a request runs one sequential pipeline: the primary completion is sent
\* only after the extraction has returned and the prompt is built, the
\* secondary only after the primary has ended in failure, and the two are
\* never in flight together.
C22_SequentialPipeline ==
  \A r \in Requests :
    /\ pc[r] \in {"idle", "json", "getUser", "settings", "fetchFile",
                  "arrayBuffer", "updateResume"} => calls[r] = <<>>
    /\ calls[r] # <<>> =>
         /\ extraction[r].state = "fulfilled"
         /\ prompt[r] = buildPrompt(body[r].customerName, extraction[r].value,
                                    body[r].language, body[r].includeQuestions,
                                    includeAtsScore[r])
         /\ calls[r][1] = Completion(GEMINI_MODEL, prompt[r])
    /\ pc[r] = "gemini" => Len(calls[r]) = 1
    /\ pc[r] = "fallback" =>
         /\ calls[r] = <<Completion(GEMINI_MODEL, prompt[r]),
                         Completion(FALLBACK_MODEL, prompt[r])>>
         /\ PrimaryFailed(geminiResponse[r])

\* the secondary call is in flight
C22_Witness ==
  \E r \in Requests :
    /\ pc[r] = "fallback"
    /\ Len(calls[r]) = 2
    /\ geminiResponse[r] = HttpError(500)

\* C23: a request stores its generated message at most once: one message
\* write is issued when generation succeeds, and none when the request ends
\* in RateLimited, QuotaExhausted or the generic failure.
C23_OneMessageWrite ==
  \A r \in Requests :
    LET n == Cardinality(WritesTo(r, "ai_messages"))
    IN /\ n <= 1
       /\ Succeeded(r) => n = 1
       /\ (Sent(r) /\ response[r].status \in {402, 429, 500}) => n = 0
       /\ Len(ai_messages) <= Cardinality({q \in Requests : Succeeded(q)})

\* a request that ended in RateLimited after its archive write
C23_Witness ==
  \E r \in Requests :
    /\ Sent(r)
    /\ response[r] = ErrorResponse(429, RATE_LIMIT_MESSAGE)
    /\ WritesTo(r, "resumes") # {}
    /\ WritesTo(r, "ai_messages") = {}

\* all that request r holds: its locals, its writes and its response
Own(r) ==
  << body[r], includeAtsScore[r], fileResponse[r], extraction[r],
     extractedText[r], prompt[r], calls[r], geminiResponse[r],
     fallbackResponse[r], modelUsed[r], generatedMessage[r], writes[r],
     response[r] >>

\* the response the outcomes of the request's own provider calls call for
OwnOutcome(r) ==
  IF fallbackResponse[r] = NoResponse
  THEN SuccessResponse(geminiResponse[r].content, "gemini")
  ELSE IF fallbackResponse[r].kind = "http" /\ fallbackResponse[r].status = 429
  THEN ErrorResponse(429, RATE_LIMIT_MESSAGE)
  ELSE IF fallbackResponse[r].kind = "http" /\ fallbackResponse[r].status = 402
  THEN ErrorResponse(402, CREDITS_MESSAGE)
  ELSE IF fallbackResponse[r].json /\ fallbackResponse[r].content \notin {"", Undefined}
  THEN SuccessResponse(fallbackResponse[r].content, "groq")
  ELSE [response[r] EXCEPT !.status = 500, !.message = Undefined,
                           !.model_used = Undefined]

\* C24: two requests that run at once do not interfere: in any interleaving
\* of their awaits a step of one request leaves all that the other holds as
\* it was, and the message, provider tag and failure category each request
\* answers with follow from its own inputs and the outcomes of its own calls.
C24_RequestsDoNotInterfere ==
  /\ [](\A r \in Requests : Sent(r) => response[r] = OwnOutcome(r))
  /\ [][\A r \in Requests : pc'[r] = pc[r] => Own(r)' = Own(r)]_vars

\* both requests have answered, one with a message and one with a failure
C24_Witness ==
  /\ Succeeded("req1") /\ response["req1"].model_used = "gemini"
  /\ Sent("req2") /\ response["req2"] = ErrorResponse(429, RATE_LIMIT_MESSAGE)
  /\ Len(writes["req1"]) = 2 /\ Len(writes["req2"]) = 1

\* text a is the first characters of text t
IsPrefix(a, t) ==
  LET x == Norm(a)
      y == Norm(t)
  IN \/ x = <<>>
     \/ /\ Len(x) <= Len(y)
        /\ \A i \in 1..(Len(x) - 1) : x[i] = y[i]
        /\ x[Len(x)].c = y[Len(x)].c
        /\ x[Len(x)].n <= y[Len(x)].n
        /\ x[Len(x)].n < y[Len(x)].n => Len(x[Len(x)].c) = 1

\* C25: the copy of the extracted text archived on the resume record is the
\* first characters of the extracted text, at most 50,000 of them, and the
\* cut is made on that copy only: the prompt is built from the text the
\* extraction returned, whole.
C25_ArchiveCutOnly ==
  \A r \in Requests :
    \A i \in WritesTo(r, "resumes") :
      LET archived == writes[r][i].row.extracted_text
          row == resumes[writes[r][i].row.id]
      IN /\ TextLen(archived) <= 50000
         /\ IsPrefix(archived, extraction[r].value)
         /\ ~writes[r][i].error => (~row.null /\ row.extracted_text = archived)
         /\ SubSeq(prompt[r], 4, 3 + Len(extraction[r].value)) = extraction[r].value
         /\ calls[r][1].user = prompt[r]

\* a text longer than the cut has been archived and sent to the provider
C25_Witness ==
  \E r \in Requests :
    /\ TextLen(extraction[r].value) > 50000
    /\ \E i \in WritesTo(r, "resumes") :
         /\ ~writes[r][i].error
         /\ TextLen(writes[r][i].row.extracted_text) = 50000
    /\ calls[r] # <<>>
    /\ TextLen(calls[r][1].user) > 50000

C27_RowMatchesResponse ==
  \A r \in Requests :
    Succeeded(r) =>
      \A i \in WritesTo(r, "ai_messages") :
        LET row == writes[r][i].row
        IN /\ row.generated_message = response[r].message
           /\ row.model_used = response[r].model_used
           /\ row.model_used \in {"gemini", "groq"}
           /\ ~writes[r][i].error => row \in {ai_messages[k] : k \in DOMAIN ai_messages}

C27_Witness ==
  \E r \in Requests :
    /\ Succeeded(r)
    /\ response[r].model_used = "groq"
    /\ Len(ai_messages) = 1
    /\ ai_messages[1].model_used = "groq"
    /\ ai_messages[1].generated_message = response[r].message

\* C28: the archive write of the extracted text happens exactly once in a
\* request that reaches extraction, before any provider call, and is not
\* undone: when both providers fail, the resume record still holds the
\* archived text and the request has left no message row.
C28_ArchiveOnceAndKept ==
  \A r \in Requests :
    LET archive == WritesTo(r, "resumes")
    IN /\ Cardinality(archive) <= 1
       /\ (Sent(r) /\ extraction[r] # NotCalled) => Cardinality(archive) = 1
       /\ calls[r] # <<>> => /\ archive = {1}
                             /\ extraction[r].state = "fulfilled"
       /\ \A i \in archive :
            ~writes[r][i].error =>
              resumes[writes[r][i].row.id] =
                [null |-> FALSE, extracted_text |-> writes[r][i].row.extracted_text]
       /\ (Sent(r) /\ Len(calls[r]) = 2 /\ ~Succeeded(r)) =>
            /\ WritesTo(r, "ai_messages") = {}
            /\ ai_messages = <<>>

\* both providers failed; the resume holds the text and no message is stored
C28_Witness ==
  \E r \in Requests :
    /\ Sent(r) /\ response[r].status = 500
    /\ Len(calls[r]) = 2
    /\ fallbackResponse[r] = HttpError(500)
    /\ ~resumes[body[r].resumeId].null
    /\ resumes[body[r].resumeId].extracted_text = ArchivedText(extractedText[r])
    /\ ai_messages = <<>>

\* C29: when the provider API key is not configured, a request that is not a
\* preflight ends in the generic failure, status 500, and no file fetch,
\* extraction, provider call, archive update or message insert is made for it.
C29_NoKeyNoWork ==
  \A r \in Requests :
    LOVABLE_API_KEY = "" =>
      /\ pc[r] \in {"absent", "idle", "done"}
      /\ fileResponse[r] = NoResponse
      /\ extraction[r] = NotCalled
      /\ calls[r] = <<>>
      /\ writes[r] = <<>>
      /\ (Sent(r) /\ response[r] # Preflight) =>
           /\ response[r].status = 500
           /\ response[r].json
           /\ response[r].message = Undefined
           /\ \A id \in ResumeIds : resumes[id].null
           /\ ai_messages = <<>>

C29_Witness ==
  \E r \in Requests :
    /\ LOVABLE_API_KEY = ""
    /\ Sent(r)
    /\ response[r] = ErrorResponse(500, "LOVABLE_API_KEY is not configured")

\* the steps sent so far are the first steps of the source order, and each
\* but the last has succeeded
StepsInOrder ==
  /\ Len(submit.steps) <= Len(SubmitSteps)
  /\ \A i \in DOMAIN submit.steps :
       /\ submit.steps[i].name = SubmitSteps[i]
       /\ i < Len(submit.steps) => submit.steps[i].outcome = "ok"

\* the submit that ran last went through all four steps
SubmitSucceeded ==
  /\ submit.pc = "idle"
  /\ Len(submit.steps) = 4
  /\ submit.steps[4].outcome = "ok"

\* C30: in the dashboard submit the steps run in the order file upload,
\* customer insert, resume insert, edge-function invoke; the edge function is
\* invoked only if the three steps before it succeeded and a failed step
\* prevents every later one; the form is cleared only on success; and the
\* loading flag is false again after every outcome.
C30_SubmitInOrder ==
  /\ [](/\ StepsInOrder
        /\ submit.loading <=> submit.pc # "idle"
        /\ submit.pc = "idle" =>
             \A i \in DOMAIN submit.steps : submit.steps[i].outcome # "pending")
  /\ [][(submit.pc # "idle" \/ submit'.pc # "idle") =>
          /\ (submit'.customerName # submit.customerName
                \/ submit'.file # submit.file) => SubmitSucceeded'
          /\ SubmitSucceeded' =>
               submit'.customerName = "" /\ submit'.file = Undefined]_vars

\* a submit went through and the form is empty again
C30_Witness ==
  /\ SubmitSucceeded
  /\ submit.generatedMessage # ""
  /\ submit.customerName = ""
  /\ submit.file = Undefined
  /\ ~submit.loading

====
